---- MODULE Spec2Model ----
(***************************************************************************)
(* FasterSuperClusterAlgorithm (src/src/algorithms/fastersupercluster.ts   *)
(* and its sibling revision src/unnamed/part_000): the change-detection    *)
(* and caching layer around a supercluster point index.                    *)
(*                                                                         *)
(* Geometry.  The index works in projected world coordinates x, y in       *)
(* [0, 1] and clusters at zoom z with radius r(z) = radius/(extent*2^z).   *)
(* The model measures every length in "pixels at zoom maxZoom", that is in *)
(* units of 1/(extent * 2^maxZoom) of the world, so that r(z) is the       *)
(* integer radius * 2^(maxZoom - z).  Longitudes and latitudes are         *)
(* measured in the same unit (360 degrees = World units), which makes      *)
(* lngX exact; latY is the Mercator projection linearised around the       *)
(* equator, it keeps the inversion of the axis.  Cluster centres are       *)
(* weighted means; they are kept as exact fractions.                       *)
(*                                                                         *)
(* Zoom levels are fractions with denominator ZoomDen (zoom 2.25 is the    *)
(* integer 9 when ZoomDen = 4), so that Math.round and Math.floor act.     *)
(***************************************************************************)
EXTENDS Integers, Sequences, FiniteSets, TLC

(***************************************************************************)
(* Bounds of the model.                                                    *)
(***************************************************************************)
MaxMarkers == 2      \* longest marker list handed to calculate
ZoomDen == 4         \* zoom levels are multiples of 1/ZoomDen
MaxClusterZoom == 23 \* largest expansion zoom an index is taken to return

(***************************************************************************)
(* Options of the engine and of the index.                                 *)
(***************************************************************************)
maxZoom == 2         \* constructor option maxZoom
radius == 60         \* constructor option radius, default 60
extent == 512        \* supercluster default option extent
minZoom == 0         \* supercluster default option minZoom
minPoints == 2       \* supercluster default option minPoints
DisplayZoomCap == 20 \* the literal 20 of Math.min(clusterZoom, 20)
NullZoom == 0 - 1    \* state.zoom of a new engine: null
Infinity == 0 - 2    \* the limit Infinity handed to getLeaves
NoId == 0 - 1        \* id of a cluster built without one: undefined
NoParent == 0 - 1    \* parentId of an object of the index that has no parent

Pow2(n) ==
  LET p[k \in 0..(IF n < 0 THEN 0 ELSE n)] == IF k = 0 THEN 1 ELSE 2 * p[k - 1]
  IN  p[IF n < 0 THEN 0 ELSE n]

World == extent * Pow2(maxZoom)   \* width of the world, 360 degrees of longitude

Undefined == << >>
Some(v) == << v >>
Value(o) == o[1]

(***************************************************************************)
(* Exact fractions <<numerator, denominator>>, denominator > 0, reduced.   *)
(***************************************************************************)
Abs(a) == IF a < 0 THEN 0 - a ELSE a

\* the greatest common divisor of a >= 0 and b > 0
GCD(a, b) ==
  CHOOSE g \in 1..b :
    /\ a % g = 0 /\ b % g = 0
    /\ \A h \in (g + 1)..b : ~(a % h = 0 /\ b % h = 0)

Frac(num, den) ==
  LET g == GCD(Abs(num), den) IN << num \div g, den \div g >>

(***************************************************************************)
(* Projection between longitude/latitude and world coordinates.            *)
(***************************************************************************)
lngX(lng) == lng + World \div 2
latY(lat) == World \div 2 - lat
\* of an internal cluster c (centre sx/n, sy/n)
xLng(c) == Frac(c.sx - c.n * (World \div 2), c.n)
yLat(c) == Frac(c.n * (World \div 2) - c.sy, c.n)

(***************************************************************************)
(* The host's markers: identity and a stable position.                     *)
(***************************************************************************)
Markers ==
  { [id |-> 1, lat |-> 0, lng |-> 0],
    [id |-> 2, lat |-> 0, lng |-> 100],
    [id |-> 3, lat |-> 0, lng |-> 0] }

getPosition(marker) == << Frac(marker.lat, 1), Frac(marker.lng, 1) >>

(***************************************************************************)
(* The inputs the host hands to calculate.                                 *)
(***************************************************************************)
\* the host's marker lists: every marker at most once
MarkerLists ==
  { ms \in UNION { [1..n -> Markers] : n \in 0..MaxMarkers } :
      \A i, j \in DOMAIN ms : i # j => ms[i] # ms[j] }

\* zoom 0, maxZoom, a fraction just above maxZoom, and two zooms past it
Zooms ==
  { 0, ZoomDen * maxZoom, ZoomDen * maxZoom + 1,
    ZoomDen * (maxZoom + 1), ZoomDen * (maxZoom + 2) }

\* <<west, south, east, north>>: the whole world, a box around the markers
\* at the origin only, and a box across the antimeridian that holds none
WholeWorld == << 0 - World \div 2, 0 - World \div 4, World \div 2, World \div 4 >>
BoundingBoxes ==
  { WholeWorld,
    << 0 - 50, 0 - 50, 50, 50 >>,
    << World \div 2 - 100, 0 - 100, 100 - World \div 2, 100 >> }

Inputs == [markers : MarkerLists, zoom : Zooms, boundingBox : BoundingBoxes]

LeafClasses == { "Cluster", "SuperClusterCluster" }

(***************************************************************************)
(* The point index (supercluster).  An internal object of a tree is a      *)
(* point (cl = FALSE, index = its place in the loaded points, from 0) or a *)
(* cluster (cl = TRUE, id, n = numPoints); its centre is (sx/n, sy/n).     *)
(* The objects of a tree of fewer than nodeSize = 64 points are kept, and  *)
(* found by range and within, in the order they were inserted.             *)
(***************************************************************************)
createPointCluster(p, i) ==
  [sx |-> lngX(p.coordinates[1]), sy |-> latY(p.coordinates[2]), n |-> 1, cl |-> FALSE,
   id |-> NoId, index |-> i]

createCluster(sx, sy, id, numPoints) ==
  [sx |-> sx, sy |-> sy, n |-> numPoints, cl |-> TRUE, id |-> id, index |-> NoId]

\* what parentId is keyed by: points and clusters never share a key, a
\* cluster id being offset by the number of points
Key(o) == IF o.cl THEN o.id ELSE o.index

\* radius of clustering at a zoom, in world units
Radius(zoom) ==
  IF zoom <= maxZoom THEN radius * Pow2(maxZoom - zoom) ELSE radius \div Pow2(zoom - maxZoom)

\* (a.x - b.x)^2 + (a.y - b.y)^2 <= r^2, on the fractions
WithinDist(a, b, r) ==
  LET dx == a.sx * b.n - b.sx * a.n
      dy == a.sy * b.n - b.sy * a.n
  IN  dx * dx + dy * dy <= r * r * a.n * a.n * b.n * b.n

\* KDBush.within: the places (from 1) of the objects of tree within r of o
within(tree, o, r) == { j \in 1..Len(tree) : WithinDist(o, tree[j], r) }

\* KDBush.range: the places of the objects inside the box, borders included
\* as KDBush compares them.  The index compares coordinates it has rounded, so
\* a point on a border may fall on either side: the markers and the boxes of
\* the model keep every point off the borders of every box
range(tree, minX, minY, maxX, maxY) ==
  { j \in 1..Len(tree) :
      /\ tree[j].sx >= minX * tree[j].n /\ tree[j].sx <= maxX * tree[j].n
      /\ tree[j].sy >= minY * tree[j].n /\ tree[j].sy <= maxY * tree[j].n }

\* the members of a set of places, in ascending order
Ascending(S) ==
  [k \in 1..Cardinality(S) |->
     CHOOSE x \in S : Cardinality({ y \in S : y < x }) = k - 1]

\* the sum of field f over the objects of tree at the places js
SumOver(tree, js, f) ==
  LET sum[k \in 0..Len(js)] == IF k = 0 THEN 0 ELSE sum[k - 1] + tree[js[k]][f]
  IN  sum[Len(js)]

\* function update that also extends the domain
Put(f, k, v) == [x \in (DOMAIN f) \cup {k} |-> IF x = k THEN v ELSE f[x]]

PutAll(f, ks, v) ==
  LET K == { ks[k] : k \in 1..Len(ks) }
  IN  [x \in (DOMAIN f) \cup K |-> IF x \in K THEN v ELSE f[x]]

(***************************************************************************)
(* SuperCluster._cluster(points, zoom): one pass over the objects of the   *)
(* tree of zoom + 1 (clusterLevel).  st.visited are the places whose zoom  *)
(* field the pass has set to zoom, st.out the clusters of the new level,   *)
(* st.parentId the parentId fields.  nPoints is this.points.length.        *)
(***************************************************************************)
\* the body of the loop for the object at place i
clusterStep(tree, zoom, nPoints, i, st) ==
  IF i \in st.visited THEN st
  ELSE
    LET p == tree[i]
        visited1 == st.visited \cup {i}
        neighborIds == Ascending(within(tree, p, Radius(zoom)) \ visited1)
        numPointsOrigin == p.n
        numPoints == numPointsOrigin + SumOver(tree, neighborIds, "n")
        \* (i << 5) + (zoom + 1) + this.points.length, i counted from 0
        id == (i - 1) * 32 + (zoom + 1) + nPoints
        neighborKeys == [k \in 1..Len(neighborIds) |-> Key(tree[neighborIds[k]])]
        neighbors == [k \in 1..Len(neighborIds) |-> tree[neighborIds[k]]]
        visited2 == visited1 \cup { neighborIds[k] : k \in 1..Len(neighborIds) }
    IN  IF numPoints > numPointsOrigin /\ numPoints >= minPoints
        THEN [visited |-> visited2,
              out |-> Append(st.out,
                        createCluster(p.sx + SumOver(tree, neighborIds, "sx"),
                                      p.sy + SumOver(tree, neighborIds, "sy"),
                                      id, numPoints)),
              \* b.parentId = id, p.parentId = id; the new cluster has parentId -1
              parentId |-> Put(Put(PutAll(st.parentId, neighborKeys, id), Key(p), id),
                               id, NoParent)]
        ELSE IF numPoints > 1
        THEN [visited |-> visited2, out |-> Append(st.out, p) \o neighbors,
              parentId |-> st.parentId]
        ELSE [visited |-> visited1, out |-> Append(st.out, p), parentId |-> st.parentId]

clusterLevel(tree, zoom, nPoints, parentId) ==
  LET loop[i \in 0..Len(tree)] ==
        IF i = 0 THEN [visited |-> {}, out |-> << >>, parentId |-> parentId]
        ELSE clusterStep(tree, zoom, nPoints, i, loop[i - 1])
  IN  loop[Len(tree)]

\* the loop of load over the zooms maxZoom down to minZoom: levels[k] is the
\* index after the k levels maxZoom, ..., maxZoom - k + 1
loadLevels(trees, parentId, nPoints) ==
  LET levels[k \in 0..(maxZoom - minZoom + 1)] ==
        IF k = 0 THEN [trees |-> trees, parentId |-> parentId]
        ELSE LET zoom == maxZoom - k + 1
                 st == clusterLevel(levels[k - 1].trees[zoom + 1], zoom, nPoints,
                                    levels[k - 1].parentId)
             IN  [trees |-> [levels[k - 1].trees EXCEPT ![zoom] = st.out],
                  parentId |-> st.parentId]
  IN  levels[maxZoom - minZoom + 1]

(***************************************************************************)
(* SuperCluster: the state after the constructor, and load(points).        *)
(***************************************************************************)
NewSuperCluster ==
  [loaded |-> FALSE, points |-> << >>,
   trees |-> [z \in minZoom..(maxZoom + 1) |-> << >>],
   parentId |-> << >>]

\* the point records of calculate: coordinates [lng, lat], properties {marker}
Project(ms) ==
  [k \in 1..Len(ms) |->
     [cluster |-> FALSE, cluster_id |-> NoId, point_count |-> 0,
      coordinates |-> << ms[k].lng, ms[k].lat >>, marker |-> Some(ms[k])]]

loadTrees(points) ==
  LET pointClusters == [i \in 1..Len(points) |-> createPointCluster(points[i], i - 1)]
      lv == loadLevels([z \in minZoom..(maxZoom + 1) |->
                          IF z = maxZoom + 1 THEN pointClusters ELSE << >>],
                       [k \in 0..(Len(points) - 1) |-> NoParent],
                       Len(points))
  IN  [loaded |-> TRUE, points |-> points, trees |-> lv.trees, parentId |-> lv.parentId]

\* load computes the same index for the same points: it is computed once
\* for each point list the host can hand over
PointLists == { Project(ms) : ms \in MarkerLists }
loadMemo == [points \in PointLists |-> loadTrees(points)]
load(points) == loadMemo[points]

(***************************************************************************)
(* Queries of the index.  A feature is what getClusters, getChildren and   *)
(* getLeaves hand out: getClusterJSON(c) for a cluster, the loaded point   *)
(* this.points[c.index] for a point.                                       *)
(***************************************************************************)
getClusterJSON(c) ==
  [cluster |-> TRUE, cluster_id |-> c.id, point_count |-> c.n,
   coordinates |-> << xLng(c), yLat(c) >>, marker |-> Undefined]

Feature(sc, c) == IF c.cl THEN getClusterJSON(c) ELSE sc.points[c.index + 1]

Features(sc, tree, ids) == [k \in 1..Len(ids) |-> Feature(sc, tree[ids[k]])]

Min(a, b) == IF a < b THEN a ELSE b
Max(a, b) == IF a > b THEN a ELSE b

\* Math.floor and Math.round of a zoom given in units of 1/ZoomDen
Floor(zoom) == zoom \div ZoomDen
Round(zoom) == (2 * zoom + ZoomDen) \div (2 * ZoomDen)

\* SuperCluster._limitZoom of an integer zoom
limitZoom(z) == Max(minZoom, Min(z, maxZoom + 1))

\* ((lng + 180) % 360 + 360) % 360 - 180
wrapLng(lng) == ((lng + World \div 2) % World) - World \div 2
clampLat(lat) == Max(0 - World \div 4, Min(World \div 4, lat))

\* the query of one tree inside a box that does not cross the antimeridian
rangeQuery(sc, minLng, minLat, maxLng, maxLat, zoom) ==
  LET tree == sc.trees[limitZoom(zoom)]
      ids == Ascending(range(tree, lngX(minLng), latY(maxLat), lngX(maxLng), latY(minLat)))
  IN  Features(sc, tree, ids)

\* SuperCluster.getClusters(bbox, zoom), bbox = <<west, south, east, north>>
getClusters(sc, bbox, zoom) ==
  LET minLng == wrapLng(bbox[1])
      minLat == clampLat(bbox[2])
      maxLng == IF bbox[3] = World \div 2 THEN World \div 2 ELSE wrapLng(bbox[3])
      maxLat == clampLat(bbox[4])
  IN  IF bbox[3] - bbox[1] >= World
      THEN rangeQuery(sc, 0 - World \div 2, minLat, World \div 2, maxLat, zoom)
      ELSE IF minLng > maxLng
      THEN rangeQuery(sc, minLng, minLat, World \div 2, maxLat, zoom)
             \o rangeQuery(sc, 0 - World \div 2, minLat, maxLng, maxLat, zoom)
      ELSE rangeQuery(sc, minLng, minLat, maxLng, maxLat, zoom)

getOriginId(sc, clusterId) == (clusterId - Len(sc.points)) \div 32
getOriginZoom(sc, clusterId) == (clusterId - Len(sc.points)) % 32

\* the ids of the clusters of the index
ClusterIds(sc) == { k \in DOMAIN sc.parentId : k >= Len(sc.points) }

\* SuperCluster.getChildren(clusterId): the children of a cluster of the
\* index; an id the index does not know has none
getChildren(sc, clusterId) ==
  IF clusterId \notin ClusterIds(sc) THEN << >>
  ELSE
    LET originId == getOriginId(sc, clusterId)
        originZoom == getOriginZoom(sc, clusterId)
        index == sc.trees[originZoom]
        origin == index[originId + 1]
        ids == Ascending({ j \in within(index, origin, Radius(originZoom - 1)) :
                             sc.parentId[Key(index[j])] = clusterId })
    IN  Features(sc, index, ids)

\* SuperCluster._appendLeaves with offset 0 and no limit: the leaves below a
\* cluster, depth first, children in the order getChildren gives them
allLeaves(sc, clusterId) ==
  LET leaves[id \in ClusterIds(sc)] ==
        LET children == getChildren(sc, id)
            acc[k \in 0..Len(children)] ==
              IF k = 0 THEN << >>
              ELSE LET child == children[k]
                   IN  acc[k - 1] \o (IF child.cluster THEN leaves[child.cluster_id]
                                      ELSE << child >>)
        IN  acc[Len(children)]
  IN  IF clusterId \in ClusterIds(sc) THEN leaves[clusterId] ELSE << >>

\* SuperCluster.getLeaves(clusterId, limit): limit = limit || 10, offset 0;
\* the walk stops when the result holds limit leaves
getLeaves(sc, clusterId, limit) ==
  LET all == allLeaves(sc, clusterId)
      lim == IF limit = 0 THEN 10 ELSE limit
  IN  IF lim = Infinity \/ Len(all) <= lim THEN all ELSE SubSeq(all, 1, lim)

(***************************************************************************)
(* SuperCluster.getClusterExpansionZoom(clusterId).  The answer is a zoom  *)
(* (kind "number") for a cluster of the index, and the sentinel NaN, with  *)
(* no error, for an id the index does not know: no id at all, or the id of *)
(* a cluster handed out before the index was loaded anew.                  *)
(***************************************************************************)
\* one turn of the while loop on [kind, clusterId, value = expansionZoom]
expansionStep(sc, w) ==
  IF w.kind # "loop" THEN w
  ELSE IF ~(w.value <= maxZoom) THEN [w EXCEPT !.kind = "number"]
  ELSE
    LET children == getChildren(sc, w.clusterId)
    IN  IF Len(children) # 1 \/ ~children[1].cluster
        THEN [w EXCEPT !.kind = "number", !.value = w.value + 1]
        ELSE [kind |-> "loop", clusterId |-> children[1].cluster_id,
              value |-> w.value + 1]

\* the index throwing for an id it does not know
getClusterExpansionZoomThrowing(sc, clusterId) ==
  LET turns[k \in 0..(maxZoom + 3)] ==
        IF k = 0 THEN [kind |-> "loop", clusterId |-> clusterId,
                       value |-> getOriginZoom(sc, clusterId) - 1]
        ELSE expansionStep(sc, turns[k - 1])
  IN  IF clusterId \notin ClusterIds(sc) THEN [kind |-> "error", value |-> 0]
      ELSE [kind |-> "number", value |-> turns[maxZoom + 3].value]

getClusterExpansionZoom(sc, clusterId) ==
  LET turns[k \in 0..(maxZoom + 3)] ==
        IF k = 0 THEN [kind |-> "loop", clusterId |-> clusterId,
                       value |-> getOriginZoom(sc, clusterId) - 1]
        ELSE expansionStep(sc, turns[k - 1])
  IN  IF clusterId \notin ClusterIds(sc) THEN [kind |-> "NaN", value |-> 0]
      ELSE [kind |-> "number", value |-> turns[maxZoom + 3].value]

(***************************************************************************)
(* Cluster and SuperClusterCluster.  A cluster object is                   *)
(* [class, id, markers, position]; leafCls is the class the revision of    *)
(* transformCluster at hand builds a leaf with.                            *)
(***************************************************************************)
count(c) == Len(c.markers)

\* a cluster that has no summary: reading it gives undefined
ClusterSummaryUndefined(c) == Undefined

\* Cluster.summary: the position and the count of the cluster
ClusterSummary(c) == Some(<< c.position, count(c) >>)

\* `${this.position} ${this.count}` of a SuperClusterCluster; a plain Cluster
\* answers with its own summary
summary(c) ==
  IF c.class = "SuperClusterCluster" THEN Some(<< c.position, count(c) >>)
  ELSE ClusterSummary(c)

Summaries(cs) == [k \in 1..Len(cs) |-> summary(cs[k])]

deepEqual(a, b) == a = b
shallowEqual(a, b) == a = b

LeafMarkers(leaves) == [k \in 1..Len(leaves) |-> Value(leaves[k].marker)]

\* getLeaves(clusterId, 1): the members cut to the first leaf
transformClusterFirstLeaf(sc, f, leafCls) ==
  IF f.cluster
  THEN [class |-> "SuperClusterCluster", id |-> f.cluster_id,
        markers |-> LeafMarkers(getLeaves(sc, f.cluster_id, 1)),
        position |-> << f.coordinates[2], f.coordinates[1] >>]
  ELSE [class |-> leafCls, id |-> NoId,
        markers |-> << Value(f.marker) >>,
        position |-> getPosition(Value(f.marker))]

\* the position of a leaf read from the feature's [lng, lat] pair as it stands
transformClusterLeafFromGeometry(sc, f, leafCls) ==
  IF f.cluster
  THEN [class |-> "SuperClusterCluster", id |-> f.cluster_id,
        markers |-> LeafMarkers(getLeaves(sc, f.cluster_id, Infinity)),
        position |-> << f.coordinates[2], f.coordinates[1] >>]
  ELSE [class |-> leafCls, id |-> NoId,
        markers |-> << Value(f.marker) >>,
        position |-> << Frac(f.coordinates[1], 1), Frac(f.coordinates[2], 1) >>]

transformCluster(sc, f, leafCls) ==
  IF f.cluster
  THEN [class |-> "SuperClusterCluster", id |-> f.cluster_id,
        markers |-> LeafMarkers(getLeaves(sc, f.cluster_id, Infinity)),
        \* new google.maps.LatLng({ lat, lng })
        position |-> << f.coordinates[2], f.coordinates[1] >>]
  ELSE [class |-> leafCls, id |-> NoId,
        markers |-> << Value(f.marker) >>,
        position |-> getPosition(Value(f.marker))]

\* getBoundingBox(map) and map.getZoom() are fields of the input
clusterQuery(sc, boundingBox, zoom, leafCls) ==
  LET fs == getClusters(sc, boundingBox, Round(zoom))
  IN  [k \in 1..Len(fs) |-> transformCluster(sc, fs[k], leafCls)]

\* a query is a function of the index and the viewport: computed once for each
clusterMemo ==
  [sc \in { load(points) : points \in PointLists } |->
     [boundingBox \in BoundingBoxes |->
        [zoom \in Zooms |->
           [leafCls \in LeafClasses |-> clusterQuery(sc, boundingBox, zoom, leafCls)]]]]

cluster(sc, in, leafCls) == clusterMemo[sc][in.boundingBox][in.zoom][leafCls]

\* the answer of the index handed on without Math.min
minWithoutCap(answer) ==
  [kind |-> answer.kind,
   value |-> IF answer.kind = "number" THEN answer.value ELSE 0,
   clusterZoom |-> answer.value]

(***************************************************************************)
(* SuperClusterCluster.expansionZoom (getExpansionZoom(cluster) in the     *)
(* sibling revision): Math.min(clusterZoom, 20) of what the index answers. *)
(* An answer is [kind, value]; Math.min(NaN, 20) is NaN, and an error the  *)
(* index throws is not caught.  The outcome keeps the answer it was made   *)
(* from as clusterZoom.                                                    *)
(***************************************************************************)
minWithCap(answer) ==
  [kind |-> answer.kind,
   value |-> IF answer.kind = "number" THEN Min(answer.value, DisplayZoomCap) ELSE 0,
   clusterZoom |-> answer.value]

\* a plain Cluster has no expansionZoom getter: reading it gives undefined
expansionZoom(sc, c) ==
  IF c.class = "SuperClusterCluster"
  THEN minWithCap(getClusterExpansionZoom(sc, c.id))
  ELSE [kind |-> "undefined", value |-> 0, clusterZoom |-> 0]

\* x > this.maxZoom for a zoom x that may be null (null > n is 0 > n)
BeyondMaxZoom(zoom) == zoom # NullZoom /\ zoom > ZoomDen * maxZoom

(***************************************************************************)
(* calculate(input) on the engine e = [superCluster, markers, state,       *)
(* clusters]: the engine after the call, the flag changed, and which       *)
(* statements the call went through.                                       *)
(***************************************************************************)
\* the marker lists compared as sets: the order of the markers left out
markersChangedUnordered(inMarkers, stored) ==
  \/ stored = Undefined
  \/ { inMarkers[k] : k \in 1..Len(inMarkers) }
       # { Value(stored)[k] : k \in 1..Len(Value(stored)) }

\* the marker lists compared by their lengths only
markersChangedByLength(inMarkers, stored) ==
  stored = Undefined \/ Len(inMarkers) # Len(Value(stored))

\* !deepEqual(input.markers, this.markers)
markersChanged(inMarkers, stored) == ~deepEqual(Some(inMarkers), stored)

\* the test of the viewport on the zoom alone, the bounding box left out
viewportChangedZoomOnly(prev, cur) ==
  IF BeyondMaxZoom(prev.zoom) /\ BeyondMaxZoom(cur.zoom) THEN FALSE
  ELSE prev.zoom # cur.zoom

\* the test of the viewport without the case of two zooms beyond maxZoom
viewportChangedAnyZoom(prev, cur) == ~deepEqual(prev, cur)

\* the test of the viewport, made when the markers did not change: nothing
\* beyond maxZoom on both sides, else !deepEqual(this.state, state)
viewportChanged(prev, cur) ==
  IF BeyondMaxZoom(prev.zoom) /\ BeyondMaxZoom(cur.zoom) THEN FALSE
  ELSE ~deepEqual(prev, cur)

\* clusters.length && this.clusters.length: only two lists with elements
comparableNonEmpty(fresh, stored) ==
  stored # Undefined /\ Len(fresh) > 0 /\ Len(Value(stored)) > 0

\* clusters && this.clusters: both are arrays or undefined, and an array,
\* empty or not, is truthy; the fresh list is always an array
comparable(fresh, stored) == stored # Undefined

\* the two mapped arrays compared by identity: never the same array
summariesIdentical(fresh, old) == FALSE

\* shallowEqual(clusters.map(c => c.summary), this.clusters.map(c => c.summary))
summariesEqual(fresh, old) == shallowEqual(Summaries(fresh), Summaries(old))

\* calculate with every comparison made by identity (===) instead of by
\* content: a new array, a new state object, a new list are never identical
calculateByIdentity(e, in, leafCls) ==
  [superCluster |-> load(Project(in.markers)), markers |-> Some(in.markers),
   state |-> [zoom |-> in.zoom, boundingBox |-> in.boundingBox],
   clusters |-> Some(cluster(load(Project(in.markers)), in, leafCls)),
   changed |-> TRUE,
   fresh |-> cluster(load(Project(in.markers)), in, leafCls),
   reloaded |-> TRUE, shortcut |-> FALSE, requeried |-> TRUE,
   compared |-> e.clusters # Undefined, downgraded |-> FALSE]

\* if (!deepEqual(input.markers, this.markers)) { ... load(points) }
reloadIndex(e, in) ==
  IF markersChanged(in.markers, e.markers)
  THEN [reloaded |-> TRUE, markers |-> Some(in.markers),
        superCluster |-> load(Project(in.markers))]
  ELSE [reloaded |-> FALSE, markers |-> e.markers, superCluster |-> e.superCluster]

\* the summaries compared with those of (this.clusters || [])
recomputeStoredOrEmpty(e, ix, state1, changed1, fresh) ==
  LET compared == changed1
      downgraded ==
        compared /\ summariesEqual(fresh, IF e.clusters = Undefined THEN << >>
                                          ELSE Value(e.clusters))
  IN  [superCluster |-> ix.superCluster,
       markers |-> ix.markers,
       state |-> state1,
       clusters |-> IF changed1 THEN Some(fresh) ELSE e.clusters,
       changed |-> changed1 /\ ~downgraded,
       fresh |-> fresh,
       reloaded |-> ix.reloaded,
       shortcut |-> ~ix.reloaded /\ BeyondMaxZoom(e.state.zoom)
                      /\ BeyondMaxZoom(state1.zoom),
       requeried |-> changed1,
       compared |-> compared, downgraded |-> downgraded]

\* this.state = state moved inside if (changed)
recomputeStateIfChanged(e, ix, state1, changed1, fresh) ==
  LET compared == changed1 /\ comparable(fresh, e.clusters)
      downgraded == compared /\ summariesEqual(fresh, Value(e.clusters))
  IN  [superCluster |-> ix.superCluster,
       markers |-> ix.markers,
       state |-> IF changed1 THEN state1 ELSE e.state,
       clusters |-> IF changed1 THEN Some(fresh) ELSE e.clusters,
       changed |-> changed1 /\ ~downgraded,
       fresh |-> fresh,
       reloaded |-> ix.reloaded,
       shortcut |-> ~ix.reloaded /\ BeyondMaxZoom(e.state.zoom)
                      /\ BeyondMaxZoom(state1.zoom),
       requeried |-> changed1,
       compared |-> compared, downgraded |-> downgraded]

\* this.clusters = clusters left out when the summaries are equal
recomputeKeepIfEqual(e, ix, state1, changed1, fresh) ==
  LET compared == changed1 /\ comparable(fresh, e.clusters)
      downgraded == compared /\ summariesEqual(fresh, Value(e.clusters))
  IN  [superCluster |-> ix.superCluster,
       markers |-> ix.markers,
       state |-> state1,
       clusters |-> IF changed1 /\ ~downgraded THEN Some(fresh) ELSE e.clusters,
       changed |-> changed1 /\ ~downgraded,
       fresh |-> fresh,
       reloaded |-> ix.reloaded,
       shortcut |-> ~ix.reloaded /\ BeyondMaxZoom(e.state.zoom)
                      /\ BeyondMaxZoom(state1.zoom),
       requeried |-> changed1,
       compared |-> compared, downgraded |-> downgraded]

\* if (changed) { clusters = this.cluster(input); compare; store }  return:
\* ix is the index after reloadIndex, state1 the new viewport, changed1 the
\* flag before the comparison, fresh what this.cluster(input) gives
recompute(e, ix, state1, changed1, fresh) ==
  LET compared == changed1 /\ comparable(fresh, e.clusters)
      downgraded == compared /\ summariesEqual(fresh, Value(e.clusters))
  IN  [superCluster |-> ix.superCluster,
       markers |-> ix.markers,
       state |-> state1,
       clusters |-> IF changed1 THEN Some(fresh) ELSE e.clusters,
       changed |-> changed1 /\ ~downgraded,
       fresh |-> fresh,
       reloaded |-> ix.reloaded,
       shortcut |-> ~ix.reloaded /\ BeyondMaxZoom(e.state.zoom)
                      /\ BeyondMaxZoom(state1.zoom),
       requeried |-> changed1,
       compared |-> compared, downgraded |-> downgraded]

\* the viewport of the call, and the flag after the test of the viewport
queryViewport(e, in, leafCls, ix) ==
  recompute(e, ix,
            [zoom |-> in.zoom, boundingBox |-> in.boundingBox],
            IF ix.reloaded THEN TRUE
            ELSE viewportChanged(e.state, [zoom |-> in.zoom, boundingBox |-> in.boundingBox]),
            cluster(ix.superCluster, in, leafCls))

\* the outcome of calculate(in) on the engine e: the fields of the engine
\* after the call, the flag returned, and the path taken.  fresh is the list
\* this.cluster(input) gives, queried only on the path that has changed set
calculate(e, in, leafCls) == queryViewport(e, in, leafCls, reloadIndex(e, in))

(***************************************************************************)
(* State.                                                                  *)
(***************************************************************************)
VARIABLES
  leafClass,     \* the class of leaf clusters: which revision runs
  superCluster,  \* this.superCluster
  markers,       \* this.markers
  state,         \* this.state
  clusters,      \* this.clusters
  input,         \* the input of the latest calculate call
  changed,       \* the flag the latest call returned
  trace,         \* what the latest call did, and what it started from
  held,          \* a cluster object the host keeps from an earlier result
  expansion      \* the outcome of the latest expansion zoom request

vars == << leafClass, superCluster, markers, state, clusters, input, changed,
           trace, held, expansion >>

Engine ==
  [superCluster |-> superCluster, markers |-> markers, state |-> state,
   clusters |-> clusters]

\* trace of a call: first (no call before it), repeat (its input is the input
\* of the call before it), the statements it went through, and how what it
\* started from compares with what it ended with
NoTrace ==
  [called |-> FALSE, first |-> FALSE, repeat |-> FALSE, reloaded |-> FALSE,
   prevBeyond |-> FALSE, viewportDiffers |-> FALSE,
   shortcut |-> FALSE, requeried |-> FALSE, compared |-> FALSE,
   downgraded |-> FALSE, prevEmpty |-> FALSE, freshLikePrev |-> FALSE,
   markersEqual |-> FALSE, sameIndex |-> FALSE, storedFresh |-> FALSE,
   sameClusters |-> FALSE, prevRoundBeyond |-> FALSE, sameRounded |-> FALSE,
   samePosCounts |-> FALSE, sameMembers |-> FALSE]

\* what a list shows: the position and the count of each cluster, in order
PosCounts(cs) == [k \in 1..Len(cs) |-> << cs[k].position, count(cs[k]) >>]

\* what a list wraps: the member markers of each cluster, in order
Members(cs) == [k \in 1..Len(cs) |-> cs[k].markers]

NoExpansion == [kind |-> "none", value |-> 0, clusterZoom |-> 0]

\* the constructor: nothing loaded, markers and clusters unset, zoom null,
\* boundingBox [-180, -90, 180, 90]
Init ==
  /\ leafClass \in LeafClasses
  /\ superCluster = NewSuperCluster
  /\ markers = Undefined
  /\ state = [zoom |-> NullZoom, boundingBox |-> WholeWorld]
  /\ clusters = Undefined
  /\ input = Undefined
  /\ changed = FALSE
  /\ trace = NoTrace
  /\ held = Undefined
  /\ expansion = NoExpansion

\* the host calls calculate(in)
Calculate(in) ==
  \E r \in { calculate(Engine, in, leafClass) } :
      /\ superCluster' = r.superCluster
      /\ markers' = r.markers
      /\ state' = r.state
      /\ clusters' = r.clusters
      /\ changed' = r.changed
      /\ input' = Some(in)
      /\ trace' = [called |-> TRUE, first |-> ~trace.called,
                   repeat |-> input = Some(in),
                   reloaded |-> r.reloaded,
                   prevBeyond |-> BeyondMaxZoom(state.zoom),
                   viewportDiffers |-> state # r.state,
                   shortcut |-> r.shortcut,
                   requeried |-> r.requeried, compared |-> r.compared,
                   downgraded |-> r.downgraded,
                   prevEmpty |-> clusters = Some(<< >>),
                   freshLikePrev |->
                     /\ clusters # Undefined
                     /\ Summaries(r.fresh) = Summaries(Value(clusters)),
                   markersEqual |-> markers = Some(in.markers),
                   sameIndex |-> r.superCluster = superCluster /\ r.markers = markers,
                   storedFresh |-> r.clusters = Some(r.fresh),
                   sameClusters |-> r.clusters = clusters,
                   prevRoundBeyond |->
                     state.zoom # NullZoom /\ Round(state.zoom) > maxZoom,
                   sameRounded |->
                     /\ state.zoom # NullZoom
                     /\ Round(state.zoom) = Round(in.zoom)
                     /\ state.boundingBox = in.boundingBox,
                   samePosCounts |->
                     /\ clusters # Undefined
                     /\ PosCounts(Value(r.clusters)) = PosCounts(Value(clusters)),
                   sameMembers |->
                     /\ clusters # Undefined
                     /\ Members(Value(r.clusters)) = Members(Value(clusters))]
      /\ expansion' = NoExpansion
      /\ UNCHANGED << leafClass, held >>

Next == \E in \in Inputs : Calculate(in)

Spec == Init /\ [][Next]_vars

(***************************************************************************)
(* The host and the expansion zoom.  The host may keep a cluster object of *)
(* the latest result, across later calls, and ask for its expansion zoom.  *)
(***************************************************************************)
HostRetain(i) ==
  /\ clusters # Undefined
  /\ i \in 1..Len(Value(clusters))
  /\ held' = Some(Value(clusters)[i])
  /\ expansion' = NoExpansion
  /\ UNCHANGED << leafClass, superCluster, markers, state, clusters, input,
                  changed, trace >>

ExpansionZoom ==
  /\ held # Undefined
  /\ expansion' = expansionZoom(superCluster, Value(held))
  /\ UNCHANGED << leafClass, superCluster, markers, state, clusters, input,
                  changed, trace, held >>

\* the calls of the runs that ask for expansion zooms: the whole world at
\* zoom 0, at maxZoom and past it
ExpansionInputs ==
  { in \in Inputs : in.boundingBox = WholeWorld
                      /\ in.zoom \in { 0, ZoomDen * maxZoom, ZoomDen * (maxZoom + 1) } }

NextExpansion ==
  \/ \E in \in ExpansionInputs : Calculate(in)
  \/ \E i \in 1..MaxMarkers : HostRetain(i)
  \/ ExpansionZoom

SpecExpansion == Init /\ [][NextExpansion]_vars

(***************************************************************************)
(* The cap alone.  An index built with a larger maxZoom answers zooms up   *)
(* to maxZoom + 1; here the answer is any zoom up to MaxClusterZoom, NaN   *)
(* or an error, and the getter is applied to it.                           *)
(***************************************************************************)
Answers ==
  [kind : {"number"}, value : 0..MaxClusterZoom]
    \cup { [kind |-> "NaN", value |-> 0], [kind |-> "error", value |-> 0] }

\* the aggregate clusters calculate hands out for the whole world at zoom 0
CapClusters ==
  { c \in UNION { { clusterQuery(load(Project(ms)), WholeWorld, 0, "SuperClusterCluster")[i] :
                      i \in 1..Len(clusterQuery(load(Project(ms)), WholeWorld, 0,
                                                 "SuperClusterCluster")) } :
                    ms \in MarkerLists } : c.id # NoId }

\* the host holds c, asks for its expansion zoom, and the index answers
AnswerExpansionZoom(c, answer) ==
  /\ held' = Some(c)
  /\ expansion' = minWithCap(answer)
  /\ UNCHANGED << leafClass, superCluster, markers, state, clusters, input,
                  changed, trace >>

NextCap == \E c \in CapClusters, answer \in Answers : AnswerExpansionZoom(c, answer)

SpecCap == Init /\ [][NextCap]_vars

(***************************************************************************)
(* Properties.  A bounding box is [west, south, east, north]; one whose    *)
(* west is past its east crosses the antimeridian.  The engine hands the   *)
(* box to getClusters as it is, and the index decides which points are in  *)
(* it: one strictly inside is, one strictly outside is not, and one on the *)
(* border is in or out as the rounding of the index's coordinates decides. *)
(***************************************************************************)
\* the position of the marker is strictly inside the box
Contains(box, marker) ==
  /\ box[2] < marker.lat /\ marker.lat < box[4]
  /\ IF box[1] <= box[3]
     THEN box[1] < marker.lng /\ marker.lng < box[3]
     ELSE marker.lng > box[1] \/ marker.lng < box[3]

\* the one leaf cluster of a marker: its exact position, itself as only member
LeafOf(marker) ==
  [class |-> leafClass, id |-> NoId, markers |-> << marker >>,
   position |-> << Frac(marker.lat, 1), Frac(marker.lng, 1) >>]

\* C1: a call of calculate with the marker list and the viewport of the call
\* before it returns changed = false.
C1_RepeatedCallUnchanged == trace.repeat => changed = FALSE

C1_Witness ==
  /\ trace.repeat
  /\ changed = FALSE
  /\ Len(Value(clusters)) > 0

\* C2: after a call of calculate, the points the index holds are the
\* projection of the marker list of that call, whether the call reloaded the
\* index or not.
C2_IndexHoldsLatestMarkers ==
  trace.called =>
    /\ superCluster.loaded
    /\ superCluster.points = Project(Value(input).markers)
    /\ markers = Some(Value(input).markers)

C2_Witness ==
  /\ trace.called /\ ~trace.first
  /\ trace.reloaded
  /\ Len(superCluster.points) = MaxMarkers

\* C3, as stated: with the zoom beyond maxZoom on the call before and on this
\* call, calculate returns changed = false, whatever the marker lists.
C3_BeyondMaxZoomUnchanged ==
  (trace.called /\ trace.prevBeyond /\ BeyondMaxZoom(state.zoom))
    => changed = FALSE

\* C3, amended: with the marker list equal to the stored one and the zoom
\* beyond maxZoom on the call before and on this call, calculate returns
\* changed = false.
C3_SameMarkersBeyondMaxZoomUnchanged ==
  (trace.called /\ ~trace.reloaded /\ trace.prevBeyond /\ BeyondMaxZoom(state.zoom))
    => changed = FALSE

C3_Witness ==
  /\ trace.called /\ ~trace.reloaded
  /\ trace.prevBeyond /\ BeyondMaxZoom(state.zoom)
  /\ trace.viewportDiffers
  /\ ~trace.freshLikePrev
  /\ changed = FALSE

\* C4: when calculate takes the shortcut of two zooms beyond maxZoom, the list
\* it returns is the list a fresh query of the index at the bounding box and
\* zoom of the call gives.
C4_ShortcutEqualsFreshQuery ==
  trace.shortcut =>
    clusters = Some(cluster(superCluster, Value(input), leafClass))

\* C5: when the markers equal the stored ones, the viewport differs from the
\* stored one and the fresh query has the summaries of the list returned
\* before, in the same order, calculate returns changed = false.
C5_SameSummariesUnchanged ==
  (trace.called /\ ~trace.reloaded /\ trace.viewportDiffers /\ trace.freshLikePrev)
    => changed = FALSE

C5_Witness ==
  /\ trace.called /\ ~trace.reloaded
  /\ trace.viewportDiffers /\ trace.freshLikePrev
  /\ trace.requeried /\ trace.downgraded
  /\ Len(Value(clusters)) > 0
  /\ changed = FALSE

\* C6, as stated: with a marker list of one marker, the list calculate returns
\* is one leaf cluster of that marker, for every viewport.
C6_SingleMarkerOneLeaf ==
  (trace.called /\ Len(Value(input).markers) = 1)
    => clusters = Some(<< LeafOf(Value(input).markers[1]) >>)

\* C6, amended: with a marker list of one marker, the list calculate returns
\* is empty or the one leaf cluster of that marker, with the marker's exact
\* position and count 1; unless the call took the shortcut beyond maxZoom, it
\* is the leaf cluster when the marker is strictly inside the bounding box
\* and empty when it is strictly outside.
C6_SingleMarkerLeafInsideBox ==
  (trace.called /\ Len(Value(input).markers) = 1)
    => LET marker == Value(input).markers[1]
           leaf == LeafOf(marker)
           box == Value(input).boundingBox
           outside ==
             \/ marker.lat < box[2] \/ marker.lat > box[4]
             \/ IF box[1] <= box[3]
                THEN marker.lng < box[1] \/ marker.lng > box[3]
                ELSE marker.lng < box[1] /\ marker.lng > box[3]
       IN  /\ clusters \in { Some(<< >>), Some(<< leaf >>) }
           /\ count(leaf) = 1
           /\ (~trace.shortcut /\ Contains(box, marker)) => clusters = Some(<< leaf >>)
           /\ (~trace.shortcut /\ outside) => clusters = Some(<< >>)

C6_Witness ==
  /\ trace.called /\ ~trace.first
  /\ Len(Value(input).markers) = 1
  /\ trace.requeried
  /\ clusters = Some(<< LeafOf(Value(input).markers[1]) >>)
  /\ Value(input).boundingBox # WholeWorld

\* C7: every aggregate cluster of the list calculate returns has as count the
\* number of leaves getLeaves(id, Infinity) of the index gives for its id.
C7_CountIsNumberOfLeaves ==
  trace.called =>
    \A k \in 1..Len(Value(clusters)) :
      LET c == Value(clusters)[k]
      IN  c.id # NoId =>
            /\ c.id \in ClusterIds(superCluster)
            /\ count(c) = Len(getLeaves(superCluster, c.id, Infinity))

C7_Witness ==
  /\ trace.called /\ ~trace.first
  /\ \E k \in 1..Len(Value(clusters)) :
       /\ Value(clusters)[k].id # NoId
       /\ count(Value(clusters)[k]) >= 2

\* C8: the expansion zoom of an aggregate cluster is the smaller of the zoom
\* the index answers and 20, and so never more than 20.
C8_ExpansionZoomCapped ==
  expansion.kind = "number" =>
    /\ expansion.value = (IF expansion.clusterZoom < 20
                          THEN expansion.clusterZoom ELSE 20)
    /\ expansion.value <= 20

C8_Witness ==
  /\ held # Undefined
  /\ expansion.kind = "number"
  /\ expansion.clusterZoom > 20
  /\ expansion.value = 20

C10_ComparedOnlyWhenNonEmpty ==
  (trace.requeried /\ (trace.prevEmpty \/ clusters = Some(<< >>)))
    => (~trace.compared /\ ~trace.downgraded /\ changed = TRUE)

\* C10, amended: the summaries are compared whenever the call queried the
\* index and a list is stored from a call before, empty or not; two empty
\* lists compare equal and the call returns changed = false, an empty and a
\* non-empty list differ.
C10_ComparedWhenStored ==
  trace.requeried =>
    /\ trace.compared <=> ~trace.first
    /\ (trace.prevEmpty /\ clusters = Some(<< >>)) => (trace.downgraded /\ changed = FALSE)
    /\ (~trace.first /\ (trace.prevEmpty <=> clusters # Some(<< >>))) =>
         (~trace.downgraded /\ changed = TRUE)

C10_Witness ==
  /\ trace.requeried /\ trace.reloaded
  /\ trace.prevEmpty /\ clusters = Some(<< >>)
  /\ trace.downgraded
  /\ changed = FALSE


\* C11: after every call of calculate, whatever the path it took, the stored
\* viewport is the zoom and the bounding box read from the map in that call.
C11_ViewportAlwaysStored ==
  trace.called =>
    state = [zoom |-> Value(input).zoom, boundingBox |-> Value(input).boundingBox]

C11_Witness ==
  /\ trace.called /\ trace.shortcut
  /\ trace.viewportDiffers
  /\ changed = FALSE
  /\ state = [zoom |-> Value(input).zoom, boundingBox |-> Value(input).boundingBox]

\* C12: a call of calculate that queries the index stores the list of the
\* query and returns it, also when the comparison of the summaries sets
\* changed back to false; a call that does not query leaves the stored list
\* as it is and returns it.
C12_FreshListStoredAndReturned ==
  trace.called =>
    IF trace.requeried THEN trace.storedFresh ELSE trace.sameClusters

C12_Witness ==
  /\ trace.called /\ trace.requeried /\ trace.downgraded
  /\ trace.storedFresh /\ ~trace.sameClusters
  /\ changed = FALSE

\* C13: calculate reloads the index exactly when the marker list of the call
\* is not the stored list, marker by marker in order; a call that does not
\* reload leaves the stored markers and the index as they are, a call that
\* reloads loads the projection of every marker of the new list.
C13_ReloadIffMarkersDiffer ==
  trace.called =>
    /\ trace.reloaded <=> ~trace.markersEqual
    /\ ~trace.reloaded => trace.sameIndex
    /\ trace.reloaded =>
         /\ markers = Some(Value(input).markers)
         /\ superCluster = load(Project(Value(input).markers))

C13_Witness ==
  /\ trace.called /\ ~trace.first
  /\ trace.reloaded /\ ~trace.markersEqual
  /\ Len(Value(input).markers) = MaxMarkers
  /\ Len(superCluster.points) = MaxMarkers
  /\ trace.prevBeyond /\ BeyondMaxZoom(state.zoom)

\* C14: the zoom of the stored viewport is the rounded zoom, the one the
\* index is queried with, so that a call whose zoom rounds to the zoom of the
\* call before, with the same bounding box and markers, finds the viewport
\* unchanged and does not query.
C14_SnapshotKeepsRoundedZoom ==
  trace.called =>
    /\ state.zoom = ZoomDen * Round(Value(input).zoom)
    /\ (trace.sameRounded /\ ~trace.reloaded) => ~trace.requeried

\* C15: when the zoom of the call is not beyond maxZoom, the list calculate
\* returns is the list a query of the index, loaded with the markers of the
\* call, gives at the bounding box and the rounded zoom of the call, also
\* when the call returns changed = false.
C15_ReturnsFreshQueryUpToMaxZoom ==
  (trace.called /\ ~BeyondMaxZoom(state.zoom)) =>
    clusters = Some(cluster(load(Project(Value(input).markers)), Value(input),
                            leafClass))

C15_Witness ==
  /\ trace.called /\ ~trace.first
  /\ ~BeyondMaxZoom(state.zoom)
  /\ ~trace.requeried
  /\ changed = FALSE
  /\ Len(Value(clusters)) > 0
  /\ clusters = Some(cluster(superCluster, Value(input), leafClass))

\* C16: on every call of calculate after the first, changed is true exactly
\* when the positions and counts of the clusters of the returned list, in
\* order, differ from those of the list the call before returned.
C16_ChangedIffSummariesDiffer ==
  (trace.called /\ ~trace.first) => (changed <=> ~trace.samePosCounts)

\* a list of one plain leaf gives way to a leaf at another position
C16_Witness ==
  /\ trace.called /\ ~trace.first
  /\ leafClass = "Cluster"
  /\ trace.reloaded /\ trace.compared
  /\ Len(Value(clusters)) = 1
  /\ Value(clusters)[1].id = NoId
  /\ ~trace.samePosCounts
  /\ changed = TRUE

\* C17: the first call of calculate on a new engine reloads the index,
\* queries it, returns changed = true and a defined list, for every marker
\* list, the empty one included, and every viewport, a zoom beyond maxZoom
\* included.
C17_FirstCallReloadsAndChanges ==
  trace.first =>
    /\ trace.reloaded /\ trace.requeried
    /\ changed = TRUE
    /\ clusters # Undefined
    /\ trace.storedFresh
    /\ superCluster.loaded

C17_Witness ==
  /\ trace.first
  /\ Value(input).markers = << >>
  /\ BeyondMaxZoom(state.zoom)
  /\ changed = TRUE
  /\ clusters = Some(<< >>)

\* C18: when calculate returns changed = false, every cluster of the list it
\* returns has the member markers of the cluster at the same place of the
\* list the call before returned, whichever class the leaf clusters have.
C18_UnchangedKeepsMembers ==
  (trace.called /\ ~trace.first /\ changed = FALSE) => trace.sameMembers

\* C19: when calculate takes the shortcut of two zooms beyond maxZoom, the
\* rounded zoom, the one the index is queried with, is beyond maxZoom for the
\* call before and for this call.
C19_ShortcutOnlyBeyondRoundedMaxZoom ==
  trace.shortcut =>
    /\ trace.prevRoundBeyond
    /\ Round(state.zoom) > maxZoom

====
